---- MODULE Spec2Model ----
(***************************************************************************)
(* Download orchestration engine of the Universal Telegram Exporter        *)
(* (src/main.py, src/utils/state.py, src/utils/config_manager.py).         *)
(*                                                                         *)
(* One process runs one session (begin_import) at a time.  A session       *)
(* seeds the first batch with the persisted retry list, scans the source   *)
(* history after the persisted cursor, dispatches batches of concurrent    *)
(* download tasks gated by one semaphore, and persists the cursor and the  *)
(* derived retry list.  The process may die at any moment (Crash); the     *)
(* next invocation starts from what is on disk.                            *)
(*                                                                         *)
(* Concurrency granularity: asyncio tasks interleave only at awaits, so a  *)
(* task step runs from one await (semaphore, download call, refetch call,  *)
(* backoff sleep) to the next.  gather starts the coroutines in list order *)
(* and the semaphore wakes its waiters first come first served, so the     *)
(* permits are acquired in list order.  Writing the config file is assumed *)
(* to succeed; all ids of the retry list still exist in the source.        *)
(*                                                                         *)
(* Specifications: Spec (small sessions with crashes and faults, and one   *)
(* wide batch), SpecLong (one long uninterrupted session), SpecDated (one  *)
(* session with date bounds on a seeded config), SpecIdentity (one         *)
(* session on sample credentials and chat targets), SpecDispatcher         *)
(* (_download_media_internal called directly), SpecState (the methods of   *)
(* DownloadState called directly), SpecPure (_can_download and             *)
(* get_media_type applied to drawn arguments), SpecFiles                   *)
(* (manage_duplicate_file on a drawn directory), SpecErrors (ErrorHandler),*)
(* SpecExport (save_messages_to_json), SpecConfig (ConfigManager),         *)
(* SpecFilter (the head of _download_media_internal on a drawn message),   *)
(* SpecPaths (two coroutines choosing a destination in one directory) and  *)
(* SpecFair (Spec without the kill step, under fair scheduling).           *)
(***************************************************************************)
EXTENDS Integers, Sequences, FiniteSets, TLC

\* ---------------------------------------------------------------- constants
MAX_RETRIES == 3
INITIAL_RETRY_DELAY == 5
MAX_RETRY_DELAY == 300
MIN_API_HASH_LENGTH == 20
MAX_CONCURRENT_DOWNLOADS == 5
PERSIST_EVERY == 50

\* ------------------------------------------------------------------- bounds
MaxMsgId == 4        \* the source history of the small sessions is 1..MaxMsgId
MaxPage == 1         \* pagination_limit of the small sessions ranges over 1..MaxPage
MaxCap == 1          \* max_messages ranges over 0 (no cap) .. MaxCap
MaxSessions == 2     \* invocations of the program in one behaviour
MaxFaults == 1       \* dispatches of the small sessions whose first attempt does
                     \* not write a file, per behaviour
GateFaults == 1      \* the same budget for the session with the wide batch

MaxPolicyLen == 2    \* a list of allowed formats holds at most MaxPolicyLen entries
MaxAttrs == 2        \* a document carries at most MaxAttrs attributes
MaxContents == 2     \* files hold one of MaxContents byte contents
MaxListLen == 2      \* messages in one list passed to save_messages_to_json
ExportCalls == 2     \* calls of save_messages_to_json in one behaviour
MaxCalls == 3        \* direct calls of one component's methods in one behaviour
MaxSize == 2         \* file sizes passed to mark_downloaded range over 1..MaxSize
CallMessages == 2    \* messages a direct caller of the dispatcher may pass, 1..CallMessages
JitterSteps == 5     \* random.uniform(0, 1) draws k / JitterSteps, k in 0..JitterSteps-1
MaxSeed == 3         \* a persisted cursor of the dated sessions is 0 or in 2..MaxSeed
DateCut == 5         \* the date a configured date bound of the dated sessions names
ScanMessages == 250  \* messages after the cursor in the long scan
ScanPage == 100      \* pagination_limit of the long scan

\* the smallest batch that is wider than the permit pool
GateWidth == MAX_CONCURRENT_DOWNLOADS + 1

VARIABLES
    disk,                 \* config.yaml: [last_read_message_id, ids_to_retry]
    exported,             \* ids of the records in the export file
    avail,                \* ids of the messages in the source history
    accepted,             \* ids whose kind is accepted and whose format passes the policy
    pagination_limit,     \* config: batch size
    max_messages,         \* config: message cap, 0 = not configured
    export_messages,      \* config: export toggle
    identity,             \* config: [api_id, api_hash, chat_id]
    start_date,           \* config: lower date bound, 0 = not configured
    end_date,             \* config: upper date bound, 0 = not configured
    pc,                   \* position of the orchestrator
    config,               \* in-memory config dict: [last_read_message_id, ids_to_retry]
    state,                \* DownloadState
    last_read_message_id, \* local of begin_import
    messages_list,        \* local of begin_import: the batch being accumulated
    pagination_count,     \* local of begin_import
    total_messages,       \* local of begin_import
    skipped_messages,     \* local of begin_import
    messages_iter,        \* ids the iterator has still to yield
    message,              \* loop variable held while an in-loop batch runs, else 0
    tasks,                \* download_media coroutines of the batch given to gather
    permits,              \* value of download_semaphore
    sessionsLeft,         \* budget: invocations left
    faultsLeft,           \* budget: faults left
    hist,                 \* history of the session (observation only)
    unit                  \* the latest direct call of a component and its result

vars == <<disk, exported, avail, accepted, pagination_limit, max_messages,
          export_messages, identity, start_date, end_date, pc, config, state,
          last_read_message_id, messages_list, pagination_count, total_messages,
          skipped_messages, messages_iter, message, tasks, permits, sessionsLeft,
          faultsLeft, hist, unit>>

\* ------------------------------------------------------------------ helpers
Range(s) == {s[i] : i \in DOMAIN s}

Max(S) == CHOOSE x \in S : \A y \in S : y <= x

Min(S) == CHOOSE x \in S : \A y \in S : x <= y

\* the elements of a finite set of integers in increasing order
SortedList(S) ==
    [i \in 1..Cardinality(S) |-> CHOOSE x \in S : Cardinality({y \in S : y < x}) = i - 1]

FileSize(id) == id

\* message.date: the history is in increasing time order, one tick per message
date(id) == id

\* --------------------------------------------------------------- validators
\* A config value is an int [t |-> "int", n |-> k], a string
\* [t |-> "str", s |-> the sequence of its characters] or None [t |-> "none"].
\* A validator returns [ok |-> TRUE, v |-> the validated value] or raises
\* ValueError, [ok |-> FALSE, v |-> None].
IntV(k) == [t |-> "int", n |-> k]

StrV(chars) == [t |-> "str", s |-> chars]

NoneV == [t |-> "none"]

Raises == [ok |-> FALSE, v |-> NoneV]

Returns(value) == [ok |-> TRUE, v |-> value]

Digits == <<"0", "1", "2", "3", "4", "5", "6", "7", "8", "9">>

IsDigit(c) == \E i \in DOMAIN Digits : Digits[i] = c

IsHexDigit(c) == IsDigit(c) \/ c \in {"a", "b", "c", "d", "e", "f",
                                      "A", "B", "C", "D", "E", "F"}

DigitValue(c) == (CHOOSE i \in DOMAIN Digits : Digits[i] = c) - 1

RECURSIVE DecimalValue(_)
DecimalValue(ds) ==
    IF ds = <<>> THEN 0
    ELSE 10 * DecimalValue(SubSeq(ds, 1, Len(ds) - 1)) + DigitValue(ds[Len(ds)])

\* str.strip()
Strip(chars) ==
    LET keep == {i \in DOMAIN chars : chars[i] # " "}
    IN IF keep = {} THEN <<>> ELSE SubSeq(chars, Min(keep), Max(keep))

\* str.isdigit()
IsDigitString(chars) == chars # <<>> /\ \A i \in DOMAIN chars : IsDigit(chars[i])

Unsigned(chars) ==
    IF chars # <<>> /\ chars[1] \in {"-", "+"} THEN Tail(chars) ELSE chars

\* int(str): surrounding blanks, an optional sign, decimal digits
ParseInt(chars) ==
    LET t == Strip(chars)
    IN IF IsDigitString(Unsigned(t))
       THEN Returns(IntV(IF t[1] = "-" THEN 0 - DecimalValue(Unsigned(t))
                         ELSE DecimalValue(Unsigned(t))))
       ELSE Raises

\* int(str, 16) succeeds: an optional sign, hexadecimal digits
ParsesAsHex(chars) ==
    LET t == Unsigned(Strip(chars))
    IN t # <<>> /\ \A i \in DOMAIN t : IsHexDigit(t[i])

\* validators.py lines 78-106
validate_api_id(api_id) ==
    LET parsed == IF api_id.t = "str" THEN ParseInt(api_id.s) ELSE Returns(api_id)
    IN IF ~parsed.ok THEN Raises
       ELSE IF parsed.v.t # "int" \/ parsed.v.n <= 0 THEN Raises
       ELSE parsed

\* validators.py lines 109-145
validate_api_hash(api_hash) ==
    IF api_hash.t # "str" THEN Raises
    ELSE LET h == Strip(api_hash.s)
         IN IF h = <<>> THEN Raises
            ELSE IF Len(h) < MIN_API_HASH_LENGTH THEN Raises
            ELSE IF ~ParsesAsHex(h) THEN Raises
            ELSE Returns(StrV(h))

\* validators.py lines 6-75
validate_chat_id(chat_id) ==
    IF chat_id.t = "int"
    THEN IF chat_id.n = 0 THEN Raises ELSE Returns(chat_id)
    ELSE IF chat_id.t = "str"
    THEN LET c == Strip(chat_id.s)
         IN IF c = <<>> THEN Raises
            ELSE IF c[1] = "@"
                 THEN IF Tail(c) = <<>> THEN Raises ELSE Returns(StrV(Tail(c)))
            ELSE IF c[1] # "-" /\ ~IsDigitString(c) THEN Returns(StrV(c))
            ELSE LET parsed == ParseInt(c)
                 IN IF ~parsed.ok THEN Raises
                    ELSE IF parsed.v.n = 0 THEN Raises
                    ELSE parsed
    ELSE Raises

\* main.py lines 778-784: the three validations begin_import runs first
Validated_nochat(id) ==
    validate_api_id(id.api_id).ok /\ validate_api_hash(id.api_hash).ok

Validated(id) ==
    /\ validate_api_id(id.api_id).ok
    /\ validate_api_hash(id.api_hash).ok
    /\ validate_chat_id(id.chat_id).ok

\* a hash of MIN_API_HASH_LENGTH copies of one character
HashOf(c) == [i \in 1..MIN_API_HASH_LENGTH |-> c]

ValidIdentity == [api_id |-> IntV(7), api_hash |-> StrV(HashOf("a")),
                  chat_id |-> IntV(5)]

\* --------------------------------------------------------- media classifier
\* A message is [media, document, attributes]: media is "none", "photo"
\* (MessageMediaPhoto), "document" (MessageMediaDocument) or "other" (any other
\* media class); document is what media.document holds, "document" (a
\* Document), "empty" (DocumentEmpty, which has no attributes field) or
\* "none"; an attribute is [voice, round_message], each "True", "False",
\* "None" (set, not a bool) or "absent" (no such field).
\* get_media_type returns [ok |-> TRUE, kind |-> k] with k = "None" for no
\* kind, or raises AttributeError, [ok |-> FALSE, kind |-> "None"].
IsBool(flag) == flag \in {"True", "False"}

\* lines 278-282: the loop over doc.attributes from position i on
RECURSIVE KindFromAttributes(_, _)
KindFromAttributes(attrs, i) ==
    IF i > Len(attrs) THEN "document"
    ELSE IF IsBool(attrs[i].voice)
         THEN (IF attrs[i].voice = "True" THEN "voice" ELSE "audio")
    ELSE IF IsBool(attrs[i].round_message)
         THEN (IF attrs[i].round_message = "True" THEN "video_note" ELSE "video")
    ELSE KindFromAttributes(attrs, i + 1)

\* lines 272-285
get_media_type(msg) ==
    IF msg.media = "none" THEN [ok |-> TRUE, kind |-> "None"]
    ELSE IF msg.media = "photo" THEN [ok |-> TRUE, kind |-> "photo"]
    ELSE IF msg.media = "document"
         THEN IF msg.document = "document"
              THEN [ok |-> TRUE, kind |-> KindFromAttributes(msg.attributes, 1)]
              ELSE [ok |-> FALSE, kind |-> "None"]
    ELSE [ok |-> TRUE, kind |-> "None"]

\* ------------------------------------------------------------ format policy
\* file_formats is a dict (a function on the kinds it names); a value is
\* [list |-> TRUE, items |-> the list] or [list |-> FALSE, items |-> <<>>] for
\* a value that is not a list; "None" stands for a missing detected format.
FilterableKinds == {"audio", "document", "video"}

\* lines 110-119
can_download_anyall(type, file_formats, file_format) ==
    IF type \in FilterableKinds
    THEN IF type \notin DOMAIN file_formats THEN FALSE
         ELSE LET allowed_formats == file_formats[type]
              IN IF ~allowed_formats.list \/ allowed_formats.items = <<>> THEN FALSE
                 ELSE IF /\ file_format \notin Range(allowed_formats.items)
                         /\ "all" \notin Range(allowed_formats.items)
                      THEN FALSE
                 ELSE TRUE
    ELSE TRUE

can_download(type, file_formats, file_format) ==
    IF type \in FilterableKinds
    THEN IF type \notin DOMAIN file_formats THEN FALSE
         ELSE LET allowed_formats == file_formats[type]
              IN IF ~allowed_formats.list \/ allowed_formats.items = <<>> THEN FALSE
                 ELSE IF /\ file_format \notin Range(allowed_formats.items)
                         /\ allowed_formats.items[1] # "all"
                      THEN FALSE
                 ELSE TRUE
    ELSE TRUE

\* ---------------------------------------------------------- file reconciler
\* A file name is a sequence of pieces, the last one its suffix:
\* <<"a", "-copy", "1", ".jpg">> is a-copy1.jpg.  A directory is a function
\* from the names of its files to their contents; calculate_file_hash is
\* taken to tell two contents apart exactly when they differ.
IsPrefix(s, t) == Len(s) <= Len(t) /\ SubSeq(t, 1, Len(s)) = s

\* pathlib.Path(file_path).stem
Stem(name) == SubSeq(name, 1, Len(name) - 1)

\* line 98: posix_path.stem.split("-copy")[0]
file_base_name(name) ==
    LET stem == Stem(name)
        cuts == {i \in DOMAIN stem : stem[i] = "-copy"}
    IN IF cuts = {} THEN stem ELSE SubSeq(stem, 1, Min(cuts) - 1)

\* lines 99-106: glob of file_base_name*, less file_path itself
old_files(fs, file_path) ==
    {n \in DOMAIN fs \ {file_path} : IsPrefix(file_base_name(file_path), n)}

\* os.remove(file_path)
Remove(fs, name) == [n \in DOMAIN fs \ {name} |-> fs[n]]

\* lines 92-124; unreadable are the files whose reading raises IOError,
\* remove_fails says that os.remove raises OSError, and the result is the set
\* of [fs, out] the call can end with (glob lists the files in any order)
manage_duplicate_file(fs, file_path, unreadable, remove_fails) ==
    IF file_path \notin DOMAIN fs \/ file_path \in unreadable
    THEN {[fs |-> fs, out |-> file_path]}
    ELSE LET matches == {n \in old_files(fs, file_path) \ unreadable :
                            fs[n] = fs[file_path]}
         IN IF matches = {} \/ remove_fails
            THEN {[fs |-> fs, out |-> file_path]}
            ELSE {[fs |-> Remove(fs, file_path), out |-> n] : n \in matches}

\* -------------------------------------------------------- destination paths
\* A destination path is [name, copy]: copy 0 is the name itself, copy n the
\* name with -copy{n} before its suffixes; a directory here is the set of the
\* paths that exist.
\* get_next_name, lines 52-69: the first counter from 1 whose name is free
get_next_name(paths, name) ==
    [name |-> name,
     copy |-> Min({n \in 1..(Cardinality(paths) + 1) :
                     [name |-> name, copy |-> n] \notin paths})]

\* src/main.py:397-398
destination(paths, name) ==
    IF [name |-> name, copy |-> 0] \in paths THEN get_next_name(paths, name)
    ELSE [name |-> name, copy |-> 0]

\* ----------------------------------------------------------- error handler
\* UserFriendlyError: the severity of each member
Severity ==
    [FILE_REFERENCE_EXPIRED |-> "WARNING", TIMEOUT |-> "WARNING",
     BAD_REQUEST |-> "ERROR", UNAUTHORIZED |-> "ERROR", FILE_TOO_LARGE |-> "ERROR",
     NETWORK_ERROR |-> "WARNING", DIRECTORY_NOT_FOUND |-> "ERROR",
     CONFIG_INVALID |-> "ERROR", UNKNOWN_ERROR |-> "ERROR"]

\* from_exception: the table keyed by type(exception).__name__
mapping ==
    [FileReferenceExpiredError |-> "FILE_REFERENCE_EXPIRED", TimeoutError |-> "TIMEOUT",
     BadRequestError |-> "BAD_REQUEST", AuthorizationError |-> "UNAUTHORIZED",
     FloodWaitError |-> "TIMEOUT", ConnectionError |-> "NETWORK_ERROR",
     OSError |-> "DIRECTORY_NOT_FOUND", ValueError |-> "CONFIG_INVALID"]

from_exception(exception_type) ==
    IF exception_type \in DOMAIN mapping THEN mapping[exception_type]
    ELSE "UNKNOWN_ERROR"

get_severity(user_error) == Severity[user_error]

\* ErrorHandler.__init__
NewErrorHandler == [error_count |-> 0, warnings_count |-> 0]

\* handle_error: the counters after the call; has_logger says that the logger
\* argument is given (its default is None)
handle_error(self, exception_type, has_logger, critical) ==
    LET user_error == from_exception(exception_type)
    IN IF has_logger
       THEN IF critical \/ get_severity(user_error) = "ERROR"
            THEN [self EXCEPT !.error_count = @ + 1]
            ELSE [self EXCEPT !.warnings_count = @ + 1]
       ELSE self

\* --------------------------------------------------------- message exporter
\* A message is [id, text]; the export file is [exists, records], records the
\* JSON array it holds.
serialize_message(msg) == [message_id |-> msg.id, text |-> msg.text]

NoFile == [exists |-> FALSE, records |-> <<>>]

\* lines 118-122: the loop that appends the records whose id is not in
\* existing_ids, the set computed once before the loop
RECURSIVE Merge(_, _, _)
Merge(existing, existing_ids, serialized) ==
    IF serialized = <<>> THEN existing
    ELSE Merge(IF Head(serialized).message_id \notin existing_ids
               THEN Append(existing, Head(serialized)) ELSE existing,
               existing_ids, Tail(serialized))

\* a variant that replaces the record of an id already in the file
save_messages_to_json_update(file, messages, append) ==
    LET serialized == [i \in DOMAIN messages |-> serialize_message(messages[i])]
        existing == IF file.exists THEN file.records ELSE <<>>
        existing_ids == {existing[i].message_id : i \in DOMAIN existing}
        latest(r) ==
            LET same == {i \in DOMAIN serialized : serialized[i].message_id = r.message_id}
            IN IF same = {} THEN r ELSE serialized[Max(same)]
    IN [exists |-> TRUE,
        records |-> IF append
                    THEN Merge([i \in DOMAIN existing |-> latest(existing[i])],
                               existing_ids, serialized)
                    ELSE serialized]

\* lines 92-133: the file after the call
save_messages_to_json(file, messages, append) ==
    LET serialized == [i \in DOMAIN messages |-> serialize_message(messages[i])]
        existing == IF file.exists THEN file.records ELSE <<>>
        existing_ids == {existing[i].message_id : i \in DOMAIN existing}
    IN [exists |-> TRUE,
        records |-> IF append THEN Merge(existing, existing_ids, serialized)
                    ELSE serialized]

\* ---------------------------------------------------------- ConfigManager
\* A configuration document is a function from its keys to their values; the
\* file holds what yaml dumps, the list of the <<key, value>> pairs in key
\* order.
max_backups == 5

ConfigKeys == <<"api_id", "ids_to_retry", "last_read_message_id">>

Dump(doc) ==
    LET keys == SelectSeq(ConfigKeys, LAMBDA k : k \in DOMAIN doc)
    IN [i \in DOMAIN keys |-> <<keys[i], doc[keys[i]]>>]

Load(text) ==
    [k \in {text[i][1] : i \in DOMAIN text} |->
        text[CHOOSE i \in DOMAIN text : text[i][1] = k][2]]

\* lines 179-180: for key, value in updates.items(): config[key] = value
Assigned_only(doc, updates) == updates

Assigned(doc, updates) ==
    [k \in DOMAIN doc \cup DOMAIN updates |->
        IF k \in DOMAIN updates THEN updates[k] ELSE doc[k]]

\* save_config, lines 76-110: [file, backups] after a save that does not raise
save_config(store, doc) ==
    [file |-> Dump(doc), backups |-> Min({store.backups + 1, max_backups})]

\* ------------------------------------------------------------ DownloadState
EmptyState == [downloaded_ids |-> <<>>, failed_ids |-> <<>>, total_size_bytes |-> 0]

mark_downloaded_recount(st, message_id, file_size) ==
    IF message_id \notin Range(st.downloaded_ids)
    THEN [st EXCEPT !.downloaded_ids = Append(@, message_id),
                    !.total_size_bytes = @ + file_size]
    ELSE [st EXCEPT !.total_size_bytes = @ + file_size]

\* a read of total_size_bytes that another writer has overtaken
mark_downloaded_stale(st, message_id, file_size) ==
    IF message_id \notin Range(st.downloaded_ids)
    THEN [st EXCEPT !.downloaded_ids = Append(@, message_id),
                    !.total_size_bytes = file_size]
    ELSE st

mark_downloaded(st, message_id, file_size) ==
    IF message_id \notin Range(st.downloaded_ids)
    THEN [st EXCEPT !.downloaded_ids = Append(@, message_id),
                    !.total_size_bytes = @ + file_size]
    ELSE st

mark_failed(st, message_id) ==
    IF message_id \notin Range(st.failed_ids)
    THEN [st EXCEPT !.failed_ids = Append(@, message_id)]
    ELSE st

\* list(set(existing) - set(downloaded)) + failed_ids; a set of small ints
\* lists in increasing order.
get_retry_ids_nofailed(st, existing_retry_ids) ==
    SortedList(Range(existing_retry_ids) \ Range(st.downloaded_ids))

get_retry_ids(st, existing_retry_ids) ==
    SortedList(Range(existing_retry_ids) \ Range(st.downloaded_ids))
        \o st.failed_ids

\* ------------------------------------------------------------ config store
\* update_config of main.py with ConfigManager.update_config: the retry list
\* is derived from the list already in the dict, stored in the dict, and the
\* whole dict is written to the file.
UpdatedConfig(cfg, st) ==
    [cfg EXCEPT !.ids_to_retry = get_retry_ids(st, cfg.ids_to_retry)]

\* --------------------------------------------------------- messaging client
\* iterate_messages(chat, minIdExclusive, ascending): the ids greater than
\* minIdExclusive, in increasing order.
iter_messages(src, min_id) == SortedList({i \in src : i > min_id})

\* the min_id begin_import passes for a cursor
ScanMinId(cursor) == cursor + 1

\* outcomes of one client.download_media call followed by reconciliation
DownloadOutcomes ==
    {"path", "path_gone", "absent", "file_reference_expired", "timeout",
     "bad_request", "other_exception"}

\* --------------------------------------------------------------- dispatcher
\* ret is the id a coroutine returned (0 before it returns; ids are positive),
\* raised tells that it ended by propagating an exception instead, end names
\* the exit path: "filtered", "success", "absent" or "failed"
NewTask(id) == [id |-> id, pc |-> "wait", retry |-> 0, ret |-> 0, raised |-> FALSE,
                end |-> "running"]

Holding(tk) == tk.pc \in {"call", "refetch", "sleep"}

Returned(tk, how) == [tk EXCEPT !.pc = "done", !.ret = tk.id, !.end = how]

\* _get_media_meta, lines 217-221: the format is the subtype of the mime type,
\* "jpg" for a photo without one, None otherwise
file_format_of(type, mime_subtype) ==
    IF mime_subtype # "None" THEN mime_subtype
    ELSE IF type = "photo" THEN "jpg"
    ELSE "None"

\* lines 365-386 and 483-492: the head of one attempt.  "filtered": the
\* coroutine returns the id at once or skips the download; "download": the
\* download call is made; "raised": classifying raised inside the try, the
\* generic handler counts a critical error and marks the id failed.
\* media_obj says that message.photo / .voice / .video_note / .document is set.
Classify(msg, media_types, file_formats, mime_subtype, media_obj) ==
    LET type == get_media_type(msg)
    IN IF ~type.ok THEN "raised"
       ELSE IF type.kind = "None" \/ type.kind \notin media_types THEN "filtered"
       ELSE IF ~media_obj THEN "filtered"
       ELSE IF can_download(type.kind, file_formats,
                            file_format_of(type.kind, mime_subtype))
            THEN "download"
       ELSE "filtered"

\* lines 483-492: any other exception is recorded and the loop is left
OnOtherException_reraise(tk, st) ==
    [task |-> [tk EXCEPT !.pc = "done", !.raised = TRUE, !.end = "failed"],
     state |-> st]

OnOtherException(tk, st) ==
    [task |-> Returned(tk, "failed"), state |-> mark_failed(st, tk.id)]

\* lines 425-452: file reference expired; refetch unless it was the last attempt
OnFileReferenceExpired_markfirst(tk, st) ==
    IF tk.retry < MAX_RETRIES - 1
    THEN [task |-> [tk EXCEPT !.pc = "refetch"], state |-> mark_failed(st, tk.id)]
    ELSE [task |-> Returned(tk, "failed"), state |-> mark_failed(st, tk.id)]

OnFileReferenceExpired_always(tk, st) ==
    IF tk.retry < MAX_RETRIES
    THEN [task |-> [tk EXCEPT !.pc = "refetch"], state |-> st]
    ELSE [task |-> Returned(tk, "failed"), state |-> mark_failed(st, tk.id)]

OnFileReferenceExpired(tk, st) ==
    IF tk.retry < MAX_RETRIES - 1
    THEN [task |-> [tk EXCEPT !.pc = "refetch"], state |-> st]
    ELSE [task |-> Returned(tk, "failed"), state |-> mark_failed(st, tk.id)]

\* lines 453-475: timeout; sleep unless it was the last attempt
OnTimeout_nomark(tk, st) ==
    IF tk.retry < MAX_RETRIES - 1
    THEN [task |-> [tk EXCEPT !.pc = "sleep"], state |-> st]
    ELSE [task |-> Returned(tk, "failed"), state |-> st]

OnTimeout(tk, st) ==
    IF tk.retry < MAX_RETRIES - 1
    THEN [task |-> [tk EXCEPT !.pc = "sleep"], state |-> st]
    ELSE [task |-> Returned(tk, "failed"), state |-> mark_failed(st, tk.id)]

\* line 454, in units of 1 / JitterSteps of a second; jitter is the number of
\* such units that random.uniform(0, 1) drew
wait_time_flat(retry, jitter) ==
    Min({MAX_RETRY_DELAY * JitterSteps, INITIAL_RETRY_DELAY * JitterSteps + jitter})

wait_time(retry, jitter) ==
    Min({MAX_RETRY_DELAY * JitterSteps,
         (2 ^ retry) * INITIAL_RETRY_DELAY * JitterSteps + jitter})

\* lines 405-492: what one attempt does with the outcome of the download call
AttemptResult(tk, st, outcome) ==
    CASE outcome \in {"path", "path_gone"} ->
           [task |-> Returned(tk, "success"),
            state |-> mark_downloaded(st, tk.id, FileSize(tk.id))]
      [] outcome = "absent" ->
           [task |-> Returned(tk, "absent"), state |-> st]
      [] outcome = "file_reference_expired" ->
           OnFileReferenceExpired(tk, st)
      [] outcome = "timeout" ->
           OnTimeout(tk, st)
      [] outcome = "bad_request" ->
           [task |-> Returned(tk, "failed"), state |-> mark_failed(st, tk.id)]
      [] outcome = "other_exception" ->
           OnOtherException(tk, st)

\* lines 436-445: the refetch returned (the same message) or raised
RefetchResult_goon(tk, st, ok) ==
    [task |-> [tk EXCEPT !.pc = "call", !.retry = @ + 1], state |-> st]

RefetchResult(tk, st, ok) ==
    IF ok
    THEN [task |-> [tk EXCEPT !.pc = "call", !.retry = @ + 1], state |-> st]
    ELSE [task |-> Returned(tk, "failed"), state |-> mark_failed(st, tk.id)]

\* asyncio.Semaphore: acquire succeeds while the value is positive
SemFree_unbounded(p) == TRUE

SemFree(p) == p > 0

\* semaphore value after task old became task new
Release_keep(p, old, new) ==
    IF ~Holding(old) /\ Holding(new) THEN p - 1 ELSE p

Release(p, old, new) ==
    IF Holding(old) /\ ~Holding(new) THEN p + 1
    ELSE IF ~Holding(old) /\ Holding(new) THEN p - 1
    ELSE p

\* gather: resolved when every coroutine has returned
GatherResolved_first(ts) == \E t \in DOMAIN ts : ts[t].pc = "done"

GatherResolved(ts) == \A t \in DOMAIN ts : ts[t].pc = "done"

\* max(message_ids) of process_messages
BatchMax_min(ts) == Min({ts[t].ret : t \in DOMAIN ts})

BatchMax(ts) == Max({ts[t].ret : t \in DOMAIN ts})

\* ------------------------------------------------------------- orchestrator
InFlight == pc \in {"batch_loop", "batch_drain"}

Dispatch(msgs) == [i \in 1..Len(msgs) |-> NewTask(msgs[i])]

Volatile == <<config, state, last_read_message_id, messages_list,
              pagination_count, total_messages, skipped_messages, messages_iter,
              message, tasks, permits, hist>>

Settings == <<avail, accepted, pagination_limit, max_messages, export_messages,
              identity, start_date, end_date, unit>>

\* lines 888-895: the summary begin_import returns (without the duration)
DownloadSummary_scanned(total, st, skipped) ==
    [total_messages |-> total,
     successful_downloads |-> total - skipped,
     failed_downloads |-> Len(st.failed_ids),
     skipped_messages |-> skipped,
     total_size_bytes |-> st.total_size_bytes]

DownloadSummary(total, st, skipped) ==
    [total_messages |-> total,
     successful_downloads |-> Len(st.downloaded_ids),
     failed_downloads |-> Len(st.failed_ids),
     skipped_messages |-> skipped,
     total_size_bytes |-> st.total_size_bytes]

\* history of a session: the cursor it started with, the ids pulled from the
\* iterator, the greatest id of each completed batch, how many batches had
\* completed at the latest persist, the number of persists and of dispatches,
\* the retry list the session was seeded with, the batches given to
\* process_messages, the number of successes at the latest persist, the
\* summary returned, the messaging client ("none" until it is constructed
\* and started, then "connected", then "disconnected")
NoHist == [startCursor |-> 0, pulled |-> <<>>, completed |-> <<>>,
           persistedUpTo |-> 0, persists |-> 0, batches |-> 0,
           seed |-> <<>>, dispatched |-> <<>>, persistedSuccesses |-> 0,
           summary |-> DownloadSummary(0, EmptyState, 0), client |-> "none"]

\* the session's memory when no process is running
Stopped ==
    /\ config = [last_read_message_id |-> 0, ids_to_retry |-> <<>>]
    /\ state = EmptyState
    /\ last_read_message_id = 0
    /\ messages_list = <<>>
    /\ pagination_count = 0
    /\ total_messages = 0
    /\ skipped_messages = 0
    /\ messages_iter = <<>>
    /\ message = 0
    /\ tasks = <<>>
    /\ permits = 0
    /\ hist = NoHist

Stop ==
    /\ config' = [last_read_message_id |-> 0, ids_to_retry |-> <<>>]
    /\ state' = EmptyState
    /\ last_read_message_id' = 0
    /\ messages_list' = <<>>
    /\ pagination_count' = 0
    /\ total_messages' = 0
    /\ skipped_messages' = 0
    /\ messages_iter' = <<>>
    /\ message' = 0
    /\ tasks' = <<>>
    /\ permits' = 0
    /\ hist' = NoHist

\* save_messages_to_json(messages, export_file, append=True)
Exported(old, msgs) == IF export_messages THEN old \cup Range(msgs) ELSE old

\* lines 822-830: the messages fetched for ids_to_retry open the first batch
SeedBatch_dated(ids_to_retry) ==
    SelectSeq(ids_to_retry,
              LAMBDA i : /\ (start_date # 0 => date(i) >= start_date)
                         /\ (end_date # 0 => date(i) <= end_date))

SeedBatch(ids_to_retry) == ids_to_retry

\* lines 838 and 841: the date tests of the scan loop
AfterEnd(m) == end_date # 0 /\ date(m) > end_date

BeforeStart_never(m) == FALSE

BeforeStart(m) == start_date # 0 /\ date(m) < start_date

\* line 858: the message cap test
CapReached_strict(max, st) == max # 0 /\ Len(st.downloaded_ids) > max

CapReached(max, st) == max # 0 /\ Len(st.downloaded_ids) >= max

\* begin_import up to the scan loop (lines 772-830)
BeginImport ==
    /\ pc = "idle"
    /\ sessionsLeft > 0
    /\ Validated(identity)
    /\ sessionsLeft' = sessionsLeft - 1
    /\ config' = disk
    /\ state' = EmptyState
    /\ last_read_message_id' = disk.last_read_message_id
    /\ permits' = MAX_CONCURRENT_DOWNLOADS
    /\ messages_iter' = iter_messages(avail, ScanMinId(disk.last_read_message_id))
    /\ messages_list' = SeedBatch(disk.ids_to_retry)
    /\ pagination_count' = Len(SeedBatch(disk.ids_to_retry))
    /\ total_messages' = 0
    /\ skipped_messages' = 0
    /\ message' = 0
    /\ tasks' = <<>>
    /\ hist' = [NoHist EXCEPT !.startCursor = disk.last_read_message_id,
                              !.seed = disk.ids_to_retry,
                              !.client = "connected"]
    /\ pc' = "scan"
    /\ UNCHANGED <<disk, exported, faultsLeft, Settings>>

\* a validator raises ValueError and begin_import re-raises it (lines 778-784)
ValidationFails ==
    /\ pc = "idle"
    /\ sessionsLeft > 0
    /\ ~Validated(identity)
    /\ sessionsLeft' = sessionsLeft - 1
    /\ pc' = "aborted"
    /\ UNCHANGED <<disk, exported, Volatile, faultsLeft, Settings>>

\* one iteration of the scan loop up to the dispatch (lines 834-857)
Pull ==
    /\ pc = "scan"
    /\ messages_iter # <<>>
    /\ LET m == Head(messages_iter) IN
       /\ messages_iter' = Tail(messages_iter)
       /\ total_messages' = total_messages + 1
       /\ IF AfterEnd(m)
          THEN /\ skipped_messages' = skipped_messages + 1
               /\ hist' = [hist EXCEPT !.pulled = Append(@, m)]
               /\ UNCHANGED <<pc, message, tasks, pagination_count, messages_list>>
          ELSE IF BeforeStart(m)
          THEN /\ pc' = "drain"
               /\ hist' = [hist EXCEPT !.pulled = Append(@, m)]
               /\ UNCHANGED <<message, tasks, pagination_count, messages_list,
                              skipped_messages>>
          ELSE IF pagination_count # pagination_limit
          THEN /\ pagination_count' = pagination_count + 1
               /\ messages_list' = Append(messages_list, m)
               /\ hist' = [hist EXCEPT !.pulled = Append(@, m)]
               /\ UNCHANGED <<pc, message, tasks, skipped_messages>>
          ELSE /\ tasks' = Dispatch(messages_list)
               /\ message' = m
               /\ pc' = "batch_loop"
               /\ hist' = [hist EXCEPT !.pulled = Append(@, m), !.batches = @ + 1,
                                       !.dispatched = Append(@, messages_list)]
               /\ UNCHANGED <<pagination_count, messages_list, skipped_messages>>
    /\ UNCHANGED <<disk, exported, config, state, last_read_message_id, permits,
                   sessionsLeft, faultsLeft, Settings>>

\* the iterator is exhausted
ScanExhausted ==
    /\ pc = "scan"
    /\ messages_iter = <<>>
    /\ pc' = "drain"
    /\ UNCHANGED <<disk, exported, Volatile, sessionsLeft, faultsLeft, Settings>>

TaskFrame == UNCHANGED <<disk, exported, pc, config, last_read_message_id,
                         messages_list, pagination_count, total_messages,
                         skipped_messages, messages_iter, message, sessionsLeft,
                         hist, Settings>>

\* download_media: acquire the permit, classify, filter (lines 339-386)
TaskAcquire(t) ==
    /\ InFlight
    /\ tasks[t].pc = "wait"
    /\ \A u \in 1..(t - 1) : tasks[u].pc # "wait"
    /\ SemFree(permits)
    /\ LET new == IF tasks[t].id \in accepted
                  THEN [tasks[t] EXCEPT !.pc = "call"]
                  ELSE Returned(tasks[t], "filtered")
       IN /\ tasks' = [tasks EXCEPT ![t] = new]
          /\ permits' = Release(permits, tasks[t], new)
    /\ UNCHANGED <<state, faultsLeft>>
    /\ TaskFrame

\* the download call of one attempt returns or raises (lines 405-492)
TaskDownload(t) ==
    /\ InFlight
    /\ tasks[t].pc = "call"
    /\ \E outcome \in DownloadOutcomes :
         LET cost == IF outcome \notin {"path", "path_gone"} /\ tasks[t].retry = 0
                     THEN 1 ELSE 0
             r == AttemptResult(tasks[t], state, outcome)
         IN /\ cost <= faultsLeft
            /\ faultsLeft' = faultsLeft - cost
            /\ tasks' = [tasks EXCEPT ![t] = r.task]
            /\ state' = r.state
            /\ permits' = Release(permits, tasks[t], r.task)
    /\ TaskFrame

\* the refetch returns or raises (lines 436-445)
TaskRefetch(t) ==
    /\ InFlight
    /\ tasks[t].pc = "refetch"
    /\ \E ok \in BOOLEAN :
         LET r == RefetchResult(tasks[t], state, ok)
         IN /\ tasks' = [tasks EXCEPT ![t] = r.task]
            /\ state' = r.state
            /\ permits' = Release(permits, tasks[t], r.task)
    /\ UNCHANGED faultsLeft
    /\ TaskFrame

\* the backoff sleep ends (line 467) and the next attempt starts
TaskWake(t) ==
    /\ InFlight
    /\ tasks[t].pc = "sleep"
    /\ tasks' = [tasks EXCEPT ![t] = [@ EXCEPT !.pc = "call", !.retry = @ + 1]]
    /\ UNCHANGED <<state, permits, faultsLeft>>
    /\ TaskFrame

\* process_messages after gather, then the rest of the loop body (559-566, 858-866)
BatchDoneLoop ==
    /\ pc = "batch_loop"
    /\ GatherResolved(tasks)
    /\ IF \E t \in DOMAIN tasks : tasks[t].raised
       THEN /\ pc' = "aborted"
            /\ UNCHANGED <<disk, exported, Volatile>>
       ELSE LET last == BatchMax(tasks)
                h == [hist EXCEPT !.completed = Append(@, Max(Range(messages_list)))]
            IN /\ exported' = Exported(exported, messages_list)
               /\ last_read_message_id' = last
               /\ tasks' = <<>>
               /\ message' = 0
               /\ IF CapReached(max_messages, state)
                  THEN /\ pc' = "drain"
                       /\ hist' = h
                       /\ UNCHANGED <<disk, config, pagination_count, messages_list>>
                  ELSE /\ pc' = "scan"
                       /\ pagination_count' = 0
                       /\ messages_list' = <<message>>
                       /\ IF Len(state.downloaded_ids) % PERSIST_EVERY = 0
                          THEN /\ config' = UpdatedConfig(
                                    [config EXCEPT !.last_read_message_id = last], state)
                               /\ disk' = config'
                               /\ hist' = [h EXCEPT
                                      !.persists = @ + 1,
                                      !.persistedUpTo = Len(h.completed),
                                      !.persistedSuccesses = Len(state.downloaded_ids)]
                          ELSE /\ config' = [config EXCEPT !.last_read_message_id = last]
                               /\ hist' = h
                               /\ UNCHANGED disk
               /\ UNCHANGED <<state, total_messages, skipped_messages, messages_iter,
                              permits>>
    /\ UNCHANGED <<sessionsLeft, faultsLeft, Settings>>

\* "Process remaining messages" (lines 868-880)
DrainDispatch ==
    /\ pc = "drain"
    /\ messages_list # <<>>
    /\ tasks' = Dispatch(messages_list)
    /\ hist' = [hist EXCEPT !.batches = @ + 1,
                            !.dispatched = Append(@, messages_list)]
    /\ pc' = "batch_drain"
    /\ UNCHANGED <<disk, exported, config, state, last_read_message_id,
                   messages_list, pagination_count, total_messages,
                   skipped_messages, messages_iter, message, permits,
                   sessionsLeft, faultsLeft, Settings>>

DrainSkip ==
    /\ pc = "drain"
    /\ messages_list = <<>>
    /\ pc' = "finalize"
    /\ UNCHANGED <<disk, exported, Volatile, sessionsLeft, faultsLeft, Settings>>

BatchDoneDrain ==
    /\ pc = "batch_drain"
    /\ GatherResolved(tasks)
    /\ IF \E t \in DOMAIN tasks : tasks[t].raised
       THEN /\ pc' = "aborted"
            /\ UNCHANGED <<disk, exported, Volatile>>
       ELSE /\ exported' = Exported(exported, messages_list)
            /\ last_read_message_id' = BatchMax(tasks)
            /\ hist' = [hist EXCEPT !.completed = Append(@, Max(Range(messages_list)))]
            /\ tasks' = <<>>
            /\ pc' = "finalize"
            /\ UNCHANGED <<disk, config, state, messages_list, pagination_count,
                           total_messages, skipped_messages, messages_iter,
                           message, permits>>
    /\ UNCHANGED <<sessionsLeft, faultsLeft, Settings>>

\* disconnect, final cursor, final persist, summary (lines 882-903)
Finalize ==
    /\ pc = "finalize"
    /\ config' = UpdatedConfig(
           [config EXCEPT !.last_read_message_id = last_read_message_id], state)
    /\ disk' = config'
    /\ hist' = [hist EXCEPT !.persists = @ + 1,
                            !.persistedUpTo = Len(hist.completed),
                            !.persistedSuccesses = Len(state.downloaded_ids),
                            !.summary = DownloadSummary(total_messages, state,
                                                        skipped_messages),
                            !.client = "disconnected"]
    /\ pc' = "done"
    /\ UNCHANGED <<exported, state, last_read_message_id, messages_list,
                   pagination_count, total_messages, skipped_messages,
                   messages_iter, message, tasks, permits, sessionsLeft,
                   faultsLeft, Settings>>

\* the process ends: normally, by a propagated exception, or killed at any point
Exit ==
    /\ pc \in {"done", "aborted"}
    /\ pc' = "idle"
    /\ Stop
    /\ UNCHANGED <<disk, exported, sessionsLeft, faultsLeft, Settings>>

Crash ==
    /\ pc \notin {"idle", "done", "aborted"}
    /\ sessionsLeft > 0
    /\ pc' = "idle"
    /\ Stop
    /\ UNCHANGED <<disk, exported, sessionsLeft, faultsLeft, Settings>>

\* ------------------------------------------------------------ specification
InitCommon ==
    /\ disk = [last_read_message_id |-> 0, ids_to_retry |-> <<>>]
    /\ exported = {}
    /\ pc = "idle"
    /\ identity = ValidIdentity
    /\ Stopped

\* no date bound is configured and no component is called directly
NoDates == start_date = 0 /\ end_date = 0

NoUnit == unit = [op |-> "none"]

\* small sessions: short batches, several invocations
InitSmall ==
    /\ avail = 1..MaxMsgId
    /\ accepted \in {avail \ R : R \in {S \in SUBSET avail : Cardinality(S) <= 1}}
    /\ pagination_limit \in 1..MaxPage
    /\ max_messages \in 0..MaxCap
    /\ export_messages \in BOOLEAN
    /\ sessionsLeft = MaxSessions
    /\ faultsLeft = MaxFaults
    /\ NoDates
    /\ NoUnit

\* one session whose only batch is wider than the permit pool
InitGate ==
    /\ avail = 1..(GateWidth + 1)
    /\ accepted = avail
    /\ pagination_limit = GateWidth
    /\ max_messages = 0
    /\ export_messages = TRUE
    /\ sessionsLeft = 1
    /\ faultsLeft = GateFaults
    /\ NoDates
    /\ NoUnit

Init == InitCommon /\ (InitSmall \/ InitGate)

Next ==
    \/ BeginImport
    \/ Pull
    \/ ScanExhausted
    \/ \E t \in DOMAIN tasks : TaskAcquire(t)
    \/ \E t \in DOMAIN tasks : TaskDownload(t)
    \/ \E t \in DOMAIN tasks : TaskRefetch(t)
    \/ \E t \in DOMAIN tasks : TaskWake(t)
    \/ BatchDoneLoop
    \/ DrainDispatch
    \/ DrainSkip
    \/ BatchDoneDrain
    \/ Finalize
    \/ Exit
    \/ Crash

Spec == Init /\ [][Next]_vars

\* ------------------------------------------------- long uninterrupted sessions
\* One invocation that is not killed and whose download calls all write their
\* file.  The history of the long scan holds text messages only (no media:
\* download_media returns at once), so the order in which a batch of ScanPage
\* coroutines resolves is fixed; its ids start at 2, the first id the scan of
\* an empty cursor asks for.
InitLongScan ==
    /\ avail = 2..(ScanMessages + 1)
    /\ accepted = {}
    /\ pagination_limit = ScanPage
    /\ max_messages = 0
    /\ export_messages = FALSE
    /\ sessionsLeft = 1
    /\ faultsLeft = 0
    /\ NoDates
    /\ NoUnit

\* A history in which the media messages are the even ids below
\* 2 * PERSIST_EVERY and the two ids after them; with pagination_limit 1 the
\* in-loop batches are <<2>>, <<3, 4>>, <<5, 6>>, ... and each holds one media
\* message, except the last one, which holds two.
InitManySuccesses ==
    /\ avail = 1..(2 * PERSIST_EVERY + 1)
    /\ accepted = {i \in avail : i % 2 = 0 /\ i < 2 * PERSIST_EVERY}
                      \cup {2 * PERSIST_EVERY - 1, 2 * PERSIST_EVERY}
    /\ pagination_limit = 1
    /\ max_messages = 0
    /\ export_messages = FALSE
    /\ sessionsLeft = 1
    /\ faultsLeft = 0
    /\ NoDates
    /\ NoUnit

InitLong == InitCommon /\ (InitLongScan \/ InitManySuccesses)

\* the steps of Next that such a session can take
NextLong ==
    \/ BeginImport
    \/ Pull
    \/ ScanExhausted
    \/ \E t \in DOMAIN tasks : TaskAcquire(t)
    \/ \E t \in DOMAIN tasks : TaskDownload(t)
    \/ BatchDoneLoop
    \/ DrainDispatch
    \/ BatchDoneDrain
    \/ Finalize
    \/ Exit

SpecLong == InitLong /\ [][NextLong]_vars

\* ------------------------------------------------------ sessions by identity
\* One invocation on each combination of sample values of api_id, api_hash
\* and chat_id.
ApiIdSamples ==
    {IntV(7), IntV(0), IntV(0 - 1), NoneV, StrV(<<"1", "2">>), StrV(<<" ", "7", " ">>),
     StrV(<<"a", "b">>), StrV(<<"0">>), StrV(<<"-", "3">>), StrV(<<>>)}

ApiHashSamples ==
    {NoneV, IntV(5), StrV(<<>>), StrV(<<" ", " ">>), StrV(<<"a", "b">>),
     StrV(HashOf("z")), StrV(HashOf("a")), StrV(<<" ">> \o HashOf("F") \o <<" ">>),
     StrV(SubSeq(HashOf("a"), 1, MIN_API_HASH_LENGTH - 1))}

ChatIdSamples ==
    {IntV(5), IntV(0), IntV(0 - 100), NoneV, StrV(<<>>), StrV(<<" ">>),
     StrV(<<"@">>), StrV(<<"@", "u">>), StrV(<<"u">>), StrV(<<"1", "2">>),
     StrV(<<"-", "5">>), StrV(<<"0">>), StrV(<<"-", "0">>), StrV(<<"-">>),
     StrV(<<"-", "a">>)}

InitIdentity ==
    /\ disk = [last_read_message_id |-> 0, ids_to_retry |-> <<>>]
    /\ exported = {}
    /\ pc = "idle"
    /\ Stopped
    /\ identity \in [api_id : ApiIdSamples, api_hash : ApiHashSamples,
                      chat_id : ChatIdSamples]
    /\ avail = 1..MaxSeed
    /\ accepted = avail
    /\ pagination_limit = 1
    /\ max_messages = 0
    /\ export_messages = FALSE
    /\ sessionsLeft = 1
    /\ faultsLeft = 0
    /\ NoDates
    /\ NoUnit

NextIdentity == NextLong \/ ValidationFails

SpecIdentity == InitIdentity /\ [][NextIdentity]_vars

\* ------------------------------------------------------------ dated sessions
\* One invocation that is not killed and whose download calls all write their
\* file, started on a config an earlier invocation left: cursor c and the
\* retry list <<2, ..., c>> are what a session leaves whose batch 2..c failed
\* as a whole and that was killed after the persist.  The user may have set
\* date bounds and another pagination_limit since.
SeededDisks ==
    {[last_read_message_id |-> c, ids_to_retry |-> SortedList(2..c)] :
        c \in {0} \cup 2..MaxSeed}

InitDated ==
    /\ disk \in SeededDisks
    /\ exported = {}
    /\ pc = "idle"
    /\ identity = ValidIdentity
    /\ Stopped
    /\ avail = 1..(DateCut + 1)
    /\ accepted = avail
    /\ pagination_limit \in 1..(MaxPage + 1)
    /\ max_messages = 0
    /\ export_messages = FALSE
    /\ start_date \in {0, DateCut}
    /\ end_date \in {0, DateCut}
    /\ sessionsLeft = 1
    /\ faultsLeft = 0
    /\ NoUnit

NextDated == NextLong \/ DrainSkip

SpecDated == InitDated /\ [][NextDated]_vars

\* ------------------------------------------------- sessions that are not killed
\* The invocations of Spec when the process is never killed.  The event loop
\* runs every coroutine that is ready: the main coroutine of begin_import
\* goes on whenever its await has resolved, and so does each coroutine of a
\* batch, whose awaits are the semaphore (asyncio wakes waiters in the order
\* they queued), a client call and asyncio.sleep, each taken to end.
Session ==
    \/ Pull
    \/ ScanExhausted
    \/ BatchDoneLoop
    \/ DrainDispatch
    \/ DrainSkip
    \/ BatchDoneDrain
    \/ Finalize

TaskStep(t) ==
    /\ t \in DOMAIN tasks
    /\ (TaskAcquire(t) \/ TaskDownload(t) \/ TaskRefetch(t) \/ TaskWake(t))

Fairness ==
    /\ WF_vars(Session)
    /\ \A t \in 1..GateWidth : WF_vars(TaskStep(t))

NextFair ==
    \/ BeginImport
    \/ Pull
    \/ ScanExhausted
    \/ \E t \in DOMAIN tasks : TaskAcquire(t)
    \/ \E t \in DOMAIN tasks : TaskDownload(t)
    \/ \E t \in DOMAIN tasks : TaskRefetch(t)
    \/ \E t \in DOMAIN tasks : TaskWake(t)
    \/ BatchDoneLoop
    \/ DrainDispatch
    \/ DrainSkip
    \/ BatchDoneDrain
    \/ Finalize
    \/ Exit

SpecFair == Init /\ [][NextFair]_vars /\ Fairness

\* ------------------------------------------------- the dispatcher on its own
\* _download_media_internal called directly, one message at a time, each
\* message once, on a DownloadState that lives across the calls.  unit holds
\* the coroutine of the latest call, the ids passed so far, and what the
\* coroutine awaited: log lists the outcome of each download call, "refetch"
\* or "refetch_raised" for each get_messages call and "sleep" for each
\* backoff; waits lists every wait_time computed and slept those passed to
\* asyncio.sleep.
NoCall == [op |-> "_download_media_internal", called |-> {},
           task |-> [NewTask(0) EXCEPT !.pc = "done"],
           log |-> <<>>, waits |-> <<>>, slept |-> <<>>]

UnitFrame == UNCHANGED <<disk, exported, avail, accepted, pagination_limit,
                         max_messages, export_messages, identity, start_date,
                         end_date,
                         pc, config, last_read_message_id, messages_list,
                         pagination_count, total_messages, skipped_messages,
                         messages_iter, message, tasks, permits, sessionsLeft,
                         faultsLeft, hist>>

\* lines 363-386: classify, filter, enter the retry loop
CallInternal(id) ==
    /\ unit.task.pc = "done"
    /\ id \notin unit.called
    /\ unit' = [NoCall EXCEPT
                  !.called = unit.called \cup {id},
                  !.task = IF id \in accepted
                           THEN [NewTask(id) EXCEPT !.pc = "call"]
                           ELSE Returned(NewTask(id), "filtered")]
    /\ UNCHANGED state
    /\ UnitFrame

\* lines 405-492: the download call returns or raises
AttemptInternal ==
    /\ unit.task.pc = "call"
    /\ \E outcome \in DownloadOutcomes, jitter \in 0..(JitterSteps - 1) :
         LET r == AttemptResult(unit.task, state, outcome)
             w == wait_time(unit.task.retry, jitter)
         IN /\ outcome # "timeout" => jitter = 0
            /\ state' = r.state
            /\ unit' = [unit EXCEPT
                          !.task = r.task,
                          !.log = Append(@, outcome),
                          !.waits = IF outcome = "timeout" THEN Append(@, w) ELSE @,
                          !.slept = IF r.task.pc = "sleep" THEN Append(@, w) ELSE @]
    /\ UnitFrame

\* lines 436-445: get_messages returns or raises
RefetchInternal ==
    /\ unit.task.pc = "refetch"
    /\ \E ok \in BOOLEAN :
         LET r == RefetchResult(unit.task, state, ok)
         IN /\ state' = r.state
            /\ unit' = [unit EXCEPT
                          !.task = r.task,
                          !.log = Append(@, IF ok THEN "refetch" ELSE "refetch_raised")]
    /\ UnitFrame

\* line 467: asyncio.sleep returns
WakeInternal ==
    /\ unit.task.pc = "sleep"
    /\ unit' = [unit EXCEPT !.task = [@ EXCEPT !.pc = "call", !.retry = @ + 1],
                            !.log = Append(@, "sleep")]
    /\ UNCHANGED state
    /\ UnitFrame

InitDispatcher ==
    /\ InitCommon
    /\ avail = 1..CallMessages
    /\ accepted \in {avail \ R : R \in {S \in SUBSET avail : Cardinality(S) <= 1}}
    /\ pagination_limit = 1
    /\ max_messages = 0
    /\ export_messages = FALSE
    /\ sessionsLeft = 0
    /\ faultsLeft = 0
    /\ NoDates
    /\ unit = NoCall

NextDispatcher ==
    \/ \E id \in avail : CallInternal(id)
    \/ AttemptInternal
    \/ RefetchInternal
    \/ WakeInternal

SpecDispatcher == InitDispatcher /\ [][NextDispatcher]_vars

\* ---------------------------------------------------- DownloadState on its own
\* The methods of one DownloadState called directly, at most MaxCalls times.
\* unit holds the latest call: its name, its arguments, the list it returned
\* and the number of calls made.
NoStateCall == [op |-> "DownloadState", id |-> 0, size |-> 0, arg |-> <<>>,
                out |-> <<>>, calls |-> 0]

\* the lists passed as existing_retry_ids: every set of ids in increasing
\* order, and the lists that hold one id twice
RetryLists == {SortedList(S) : S \in SUBSET avail} \cup {<<i, i>> : i \in avail}

CallMarkDownloaded(id, size) ==
    /\ unit.calls < MaxCalls
    /\ state' = mark_downloaded(state, id, size)
    /\ unit' = [NoStateCall EXCEPT !.op = "mark_downloaded", !.id = id,
                                   !.size = size, !.calls = unit.calls + 1]

CallMarkFailed(id) ==
    /\ unit.calls < MaxCalls
    /\ state' = mark_failed(state, id)
    /\ unit' = [NoStateCall EXCEPT !.op = "mark_failed", !.id = id,
                                   !.calls = unit.calls + 1]

CallGetRetryIds(existing_retry_ids) ==
    /\ unit.calls < MaxCalls
    /\ unit' = [NoStateCall EXCEPT !.op = "get_retry_ids",
                                   !.arg = existing_retry_ids,
                                   !.out = get_retry_ids(state, existing_retry_ids),
                                   !.calls = unit.calls + 1]
    /\ UNCHANGED state

InitState ==
    /\ InitCommon
    /\ avail = 1..MaxMsgId
    /\ accepted = avail
    /\ pagination_limit = 1
    /\ max_messages = 0
    /\ export_messages = FALSE
    /\ sessionsLeft = 0
    /\ faultsLeft = 0
    /\ NoDates
    /\ unit = NoStateCall

NextState ==
    \/ \E id \in avail, size \in 1..MaxSize : CallMarkDownloaded(id, size) /\ UnitFrame
    \/ \E id \in avail : CallMarkFailed(id) /\ UnitFrame
    \/ \E l \in RetryLists : CallGetRetryIds(l) /\ UnitFrame

SpecState == InitState /\ [][NextState]_vars

\* -------------------------------------------------- the pure functions alone
\* no session runs and none can start
IdleProgram ==
    /\ InitCommon
    /\ avail = {}
    /\ accepted = {}
    /\ pagination_limit = 1
    /\ max_messages = 0
    /\ export_messages = FALSE
    /\ sessionsLeft = 0
    /\ faultsLeft = 0
    /\ NoDates

Kinds == {"photo", "voice", "video_note", "audio", "document", "video"}

FormatNames == {"mp3", "wav", "all"}

PolicyValues ==
    {[list |-> FALSE, items |-> <<>>]}
        \cup {[list |-> TRUE, items |-> l] :
                 l \in UNION {[1..n -> FormatNames] : n \in 0..MaxPolicyLen}}

\* the policies that name some of the kinds audio and video
Policies == UNION {[D -> PolicyValues] : D \in SUBSET {"audio", "video"}}

AttrFlags == {"True", "False", "None", "absent"}

Attributes == [voice : AttrFlags, round_message : AttrFlags]

Messages ==
    {[media |-> m, document |-> "none", attributes |-> <<>>] :
        m \in {"none", "photo", "other"}}
    \cup {[media |-> "document", document |-> d, attributes |-> <<>>] :
            d \in {"empty", "none"}}
    \cup {[media |-> "document", document |-> "document", attributes |-> a] :
            a \in UNION {[1..n -> Attributes] : n \in 0..MaxAttrs}}

\* the arguments of one call, before the call
CanDownloadArgs ==
    {[op |-> "args", fn |-> "_can_download", type |-> type,
      file_formats |-> file_formats, file_format |-> file_format] :
        type \in Kinds, file_formats \in Policies,
        file_format \in FormatNames \cup {"None"}}

GetMediaTypeArgs ==
    {[op |-> "args", fn |-> "get_media_type", message |-> msg] : msg \in Messages}

CallCanDownload ==
    /\ unit.op = "args"
    /\ unit.fn = "_can_download"
    /\ unit' = [op |-> "_can_download", type |-> unit.type,
                file_formats |-> unit.file_formats, file_format |-> unit.file_format,
                out |-> can_download(unit.type, unit.file_formats, unit.file_format)]
    /\ UNCHANGED state
    /\ UnitFrame

CallGetMediaType ==
    /\ unit.op = "args"
    /\ unit.fn = "get_media_type"
    /\ unit' = [op |-> "get_media_type", message |-> unit.message,
                out |-> get_media_type(unit.message)]
    /\ UNCHANGED state
    /\ UnitFrame

InitPure == IdleProgram /\ unit \in CanDownloadArgs \cup GetMediaTypeArgs

NextPure == CallCanDownload \/ CallGetMediaType

SpecPure == InitPure /\ [][NextPure]_vars

\* ------------------------------------------------- the filter on its own
\* _download_media_internal called once on a drawn message, up to the point
\* where it returns, skips the download or makes the download call.
MediaTypeLists == {{}, {"photo"}, {"audio"}, {"audio", "document"}}

\* the messages whose document carries at most one attribute
MessageSamples == {msg \in Messages : Len(msg.attributes) <= 1}

PolicySamples ==
    {f \in Policies :
        \A k \in DOMAIN f : f[k].list /\ Len(f[k].items) = 1 /\ f[k].items[1] # "wav"}

FilterArgs ==
    {[op |-> "args", fn |-> "_download_media_internal", message |-> msg,
      media_types |-> media_types, file_formats |-> file_formats,
      mime_subtype |-> mime_subtype, media_obj |-> media_obj] :
        msg \in MessageSamples, media_types \in MediaTypeLists,
        file_formats \in PolicySamples, mime_subtype \in {"mp3", "wav", "None"},
        media_obj \in BOOLEAN}

CallFilter ==
    /\ unit.op = "args"
    /\ unit.fn = "_download_media_internal"
    /\ LET how == Classify(unit.message, unit.media_types, unit.file_formats,
                           unit.mime_subtype, unit.media_obj)
       IN /\ unit' = [op |-> "_download_media_internal", message |-> unit.message,
                      media_types |-> unit.media_types,
                      file_formats |-> unit.file_formats,
                      mime_subtype |-> unit.mime_subtype,
                      media_obj |-> unit.media_obj, how |-> how,
                      handler |-> IF how = "raised"
                                  THEN handle_error(NewErrorHandler, "AttributeError",
                                                    TRUE, TRUE)
                                  ELSE NewErrorHandler,
                      calls |-> IF how = "download" THEN 1 ELSE 0]
          /\ state' = IF how = "raised" THEN mark_failed(state, 1) ELSE state
    /\ UnitFrame

InitFilter == IdleProgram /\ unit \in FilterArgs

NextFilter == CallFilter

SpecFilter == InitFilter /\ [][NextFilter]_vars

\* ------------------------------------------- two downloads into one directory
\* Two coroutines of one batch, both past the semaphore, each for a message
\* with a file name.  A coroutine runs from the existence check to the await
\* of client.download_media without suspending; the client creates the file
\* either before it first suspends (at_once) or at some later step.
PathNames == {"a", "b"}

PathTasks == 1..2

InFlightPath(tk) == tk.pc \in {"download", "writing"}

\* lines 396-411: check, rename, call download_media
CheckAndCall(t, at_once) ==
    /\ unit.tasks[t].pc = "check"
    /\ LET path == destination(unit.paths, unit.tasks[t].name)
       IN unit' = [unit EXCEPT
                     !.tasks[t].path = path,
                     !.tasks[t].pc = IF at_once THEN "writing" ELSE "download",
                     !.paths = IF at_once THEN @ \cup {path} ELSE @]
    /\ UNCHANGED state
    /\ UnitFrame

\* the client opens the destination file
CreateFile(t) ==
    /\ unit.tasks[t].pc = "download"
    /\ unit' = [unit EXCEPT !.tasks[t].pc = "writing",
                            !.paths = @ \cup {unit.tasks[t].path}]
    /\ UNCHANGED state
    /\ UnitFrame

\* download_media returns the path
DownloadReturns(t) ==
    /\ unit.tasks[t].pc = "writing"
    /\ unit' = [unit EXCEPT !.tasks[t].pc = "done"]
    /\ UNCHANGED state
    /\ UnitFrame

InitPaths ==
    /\ IdleProgram
    /\ \E names \in [PathTasks -> PathNames],
          paths \in SUBSET {[name |-> "a", copy |-> 0], [name |-> "a", copy |-> 1]} :
          unit = [op |-> "batch", paths |-> paths,
                  tasks |-> [t \in PathTasks |->
                               [name |-> names[t], pc |-> "check",
                                path |-> [name |-> names[t], copy |-> 0]]]]

NextPaths ==
    \/ \E t \in PathTasks, at_once \in BOOLEAN : CheckAndCall(t, at_once)
    \/ \E t \in PathTasks : CreateFile(t)
    \/ \E t \in PathTasks : DownloadReturns(t)

SpecPaths == InitPaths /\ [][NextPaths]_vars

\* ------------------------------------------------- file reconciler on its own
FileNames ==
    {<<"a", ".jpg">>, <<"a", "-copy", "1", ".jpg">>, <<"a", "b", ".jpg">>,
     <<"b", ".jpg">>}

Directories == UNION {[D -> 1..MaxContents] : D \in SUBSET FileNames}

ManageDuplicateFileArgs ==
    {[op |-> "args", fn |-> "manage_duplicate_file", fs |-> fs,
      file_path |-> file_path, unreadable |-> unreadable,
      remove_fails |-> remove_fails] :
        fs \in Directories, file_path \in FileNames,
        unreadable \in SUBSET FileNames, remove_fails \in BOOLEAN}

CallManageDuplicateFile ==
    /\ unit.op = "args"
    /\ unit.fn = "manage_duplicate_file"
    /\ \E r \in manage_duplicate_file(unit.fs, unit.file_path, unit.unreadable,
                                       unit.remove_fails) :
          unit' = [op |-> "manage_duplicate_file", before |-> unit.fs,
                   file_path |-> unit.file_path, unreadable |-> unit.unreadable,
                   remove_fails |-> unit.remove_fails, fs |-> r.fs, out |-> r.out]
    /\ UNCHANGED state
    /\ UnitFrame

InitFiles ==
    /\ IdleProgram
    /\ unit \in {a \in ManageDuplicateFileArgs :
                    a.file_path \in DOMAIN a.fs /\ a.unreadable \subseteq DOMAIN a.fs}

NextFiles == CallManageDuplicateFile

SpecFiles == InitFiles /\ [][NextFiles]_vars

\* -------------------------------------------------- error handler on its own
ExceptionTypes ==
    DOMAIN mapping \cup {"KeyError", "RPCError", "CancelledError"}

CallHandleError(exception_type, has_logger, critical) ==
    /\ unit.calls < MaxCalls
    /\ unit' = [op |-> "handle_error", calls |-> unit.calls + 1,
                exception |-> exception_type, logger |-> has_logger,
                critical |-> critical, before |-> unit.self,
                self |-> handle_error(unit.self, exception_type, has_logger, critical)]
    /\ UNCHANGED state
    /\ UnitFrame

InitErrors ==
    /\ IdleProgram
    /\ unit = [op |-> "__init__", calls |-> 0, self |-> NewErrorHandler]

NextErrors ==
    \E exception_type \in ExceptionTypes, has_logger \in BOOLEAN, critical \in BOOLEAN :
        CallHandleError(exception_type, has_logger, critical)

SpecErrors == InitErrors /\ [][NextErrors]_vars

\* ----------------------------------------------- message exporter on its own
ExportMessages == [id : {1, 2}, text : {"first", "edited"}]

MessageLists == UNION {[1..n -> ExportMessages] : n \in 0..MaxListLen}

\* src/main.py:563, the one call in the program: append=True
CallSaveMessages(messages) ==
    /\ unit.calls < ExportCalls
    /\ unit' = [op |-> "save_messages_to_json", calls |-> unit.calls + 1,
                before |-> unit.file, messages |-> messages,
                file |-> save_messages_to_json(unit.file, messages, TRUE)]
    /\ UNCHANGED state
    /\ UnitFrame

InitExport ==
    /\ IdleProgram
    /\ unit = [op |-> "none", calls |-> 0, file |-> NoFile]

NextExport == \E messages \in MessageLists : CallSaveMessages(messages)

SpecExport == InitExport /\ [][NextExport]_vars

\* -------------------------------------------------- ConfigManager on its own
ConfigValues == {0, 1}

Documents ==
    UNION {[D -> ConfigValues] : D \in SUBSET Range(ConfigKeys)}

\* ConfigManager.update_config; raised is "no" when the save returns, "open"
\* when opening the file for writing raises IOError and "dump" when writing
\* into the opened, emptied file does
CallUpdateConfig(updates, raised) ==
    /\ unit.calls < MaxCalls
    /\ LET doc == Assigned(unit.config, updates)
           saved == save_config(unit.store, doc)
       IN unit' = [op |-> "update_config", calls |-> unit.calls + 1,
                   before |-> unit.config, updates |-> updates, raised |-> raised,
                   config |-> doc,
                   store |-> IF raised = "no" THEN saved
                             ELSE IF raised = "open"
                                  THEN [unit.store EXCEPT !.backups = saved.backups]
                             ELSE [file |-> <<>>, backups |-> saved.backups]]
    /\ UNCHANGED state
    /\ UnitFrame

\* src/main.py:863 and 883: config["last_read_message_id"] = last_read_message_id
AssignCursor(value) ==
    /\ unit.calls < MaxCalls
    /\ unit.op # "assign"
    /\ unit' = [op |-> "assign", calls |-> unit.calls,
                config |-> Assigned(unit.config, [k \in {"last_read_message_id"} |-> value]),
                store |-> unit.store]
    /\ UNCHANGED state
    /\ UnitFrame

\* load_config: the document is what the file holds
InitConfig ==
    /\ IdleProgram
    /\ \E doc \in Documents :
          /\ "api_id" \in DOMAIN doc
          /\ unit = [op |-> "load_config", calls |-> 0, config |-> Load(Dump(doc)),
                     store |-> [file |-> Dump(doc), backups |-> 0]]

NextConfig ==
    \/ \E updates \in Documents, raised \in {"no", "open", "dump"} :
          CallUpdateConfig(updates, raised)
    \/ \E value \in ConfigValues : AssignCursor(value)

SpecConfig == InitConfig /\ [][NextConfig]_vars

\* ------------------------------------------------------------------- claims
Downloaded == Range(state.downloaded_ids)

Failed == Range(state.failed_ids)

Persisting == hist'.persists > hist.persists

Holders == {t \in DOMAIN tasks : Holding(tasks[t])}

\* C1: at every persist (periodic or final) every id of failed_ids is in the
\* ids_to_retry list written to the file, and the next session seeds its
\* first batch with every id of that list.
C1_FailedArePersisted ==
    [][/\ Persisting => Failed' \subseteq Range(disk'.ids_to_retry)
       /\ (pc = "idle" /\ pc' = "scan")
            => Range(disk.ids_to_retry) \subseteq Range(messages_list')]_vars

\* a periodic persist has written a failed id while the scan goes on
C1_Witness ==
    /\ pc = "scan"
    /\ hist.persists > 0
    /\ Failed # {}
    /\ Failed \subseteq Range(disk.ids_to_retry)

\* C2: every dispatch of a message whose kind is accepted and whose format
\* passes ends with the id in downloaded_ids or in failed_ids, whatever the
\* download call returned or raised.
C2_NoSilentDrop ==
    \A t \in DOMAIN tasks :
        (tasks[t].pc = "done" /\ tasks[t].id \in accepted)
            => tasks[t].id \in Downloaded \cup Failed

\* C3: the persisted last_read_message_id never decreases and is never below
\* the cursor the session started with.
C3_CursorNeverDecreases ==
    [][disk' # disk =>
         /\ disk'.last_read_message_id >= disk.last_read_message_id
         /\ disk'.last_read_message_id >= hist'.startCursor]_vars

\* C4 as claimed: at most one completed batch of the session has a greatest id
\* above the persisted cursor (a batch dispatched twice counts once).
C4_AtMostOneBatchLost ==
    Cardinality({m \in Range(hist.completed) :
                    m > disk.last_read_message_id}) <= 1

\* C4 as amended: no batch that had completed when the session last persisted
\* has a greatest id above the persisted cursor; only the batches completed
\* since that persist are lost by a crash.
C4_LostOnlySincePersist ==
    \A i \in 1..hist.persistedUpTo :
        hist.completed[i] <= disk.last_read_message_id

\* a periodic persist covered one batch and a later batch has completed whose
\* cursor advance is not yet persisted
C4_Witness ==
    /\ pc = "finalize"
    /\ hist.persistedUpTo >= 1
    /\ Len(hist.completed) > hist.persistedUpTo
    /\ \A i \in 1..Len(hist.completed) :
          i > hist.persistedUpTo => hist.completed[i] > disk.last_read_message_id

\* C5: the scan yields exactly the available ids above the cursor the session
\* started with, in increasing order.
C5_ScanStartsAfterCursor ==
    pc = "scan" =>
        hist.pulled \o messages_iter
            = SortedList({i \in avail : i > hist.startCursor})

\* C6: no id is in both downloaded_ids and failed_ids.
C6_DownloadedFailedDisjoint == Downloaded \cap Failed = {}

\* C7: at every persist no id of downloaded_ids is in the ids_to_retry list
\* written to the file.
C7_DownloadedNotRetried ==
    [][Persisting => Downloaded' \cap Range(disk'.ids_to_retry) = {}]_vars

\* C8: every dispatch returns the id of its message and none propagates an
\* exception to the batch; a dispatch that ended in a terminal failure has its
\* id in failed_ids.
C8_AlwaysReturnsId ==
    /\ pc # "aborted"
    /\ \A t \in DOMAIN tasks :
          tasks[t].pc = "done" =>
             /\ ~tasks[t].raised
             /\ tasks[t].ret = tasks[t].id
             /\ tasks[t].end = "failed" => tasks[t].id \in Failed

\* a batch resolved with one dispatch failed by an unexpected exception and
\* another one succeeded
C8_Witness ==
    /\ InFlight
    /\ GatherResolved(tasks)
    /\ \E t, u \in DOMAIN tasks :
          /\ tasks[t].end = "failed" /\ tasks[t].retry = 0
          /\ tasks[t].id \in Failed
          /\ tasks[u].end = "success"

\* C9: at most MAX_CONCURRENT_DOWNLOADS dispatches hold a permit, the permits
\* held and free add up to the pool of the session, and every permit is free
\* when the batch has resolved.
C9_PermitBound ==
    pc # "idle" =>
        /\ Cardinality(Holders) <= MAX_CONCURRENT_DOWNLOADS
        /\ permits + Cardinality(Holders) = MAX_CONCURRENT_DOWNLOADS
        /\ GatherResolved(tasks) => permits = MAX_CONCURRENT_DOWNLOADS

\* the pool is exhausted, one holder is in a refetch or a backoff sleep, and a
\* dispatch of the same batch waits for a permit
C9_Witness ==
    /\ Cardinality(Holders) = MAX_CONCURRENT_DOWNLOADS
    /\ permits = 0
    /\ \E t \in DOMAIN tasks : tasks[t].pc \in {"refetch", "sleep"}
    /\ \E t \in DOMAIN tasks : tasks[t].pc = "wait"

\* C10: while the session runs, the local cursor, the export file, the config
\* file and the number of dispatched batches change only when every download
\* task of the current batch has resolved.
C10_BatchBarrier ==
    [][(/\ pc' # "idle"
        /\ \/ last_read_message_id' # last_read_message_id
           \/ exported' # exported
           \/ disk' # disk
           \/ hist'.batches # hist.batches)
         => \A t \in DOMAIN tasks : tasks[t].pc = "done"]_vars

\* a second batch is in flight after a first batch of two tasks completed
C10_Witness ==
    /\ InFlight
    /\ hist.batches >= 2
    /\ Len(hist.completed) >= 1
    /\ \E t \in DOMAIN tasks : tasks[t].pc \in {"call", "sleep", "refetch"}

\* sizes of the batches the session gave to process_messages, in order
BatchSizes == [i \in DOMAIN hist.dispatched |-> Len(hist.dispatched[i])]

LongScan == pagination_limit = ScanPage /\ Cardinality(avail) = ScanMessages

\* C11: a session over ScanMessages (250) messages after cursor 0 with
\* pagination_limit ScanPage (100), no retry list and no filter dispatches
\* exactly three batches, of 100, 100 and 50 messages in that order, persists
\* the id of the last message as the final cursor and counts 250 messages.
C11_ThreeBatches ==
    (LongScan /\ pc = "done") =>
        /\ BatchSizes = <<ScanPage, ScanPage, ScanMessages - 2 * ScanPage>>
        /\ disk.last_read_message_id = Max(avail)
        /\ total_messages = ScanMessages

\* the download calls of the latest direct call, in order
IsCall(e) == e \in DownloadOutcomes

Calls == SelectSeq(unit.log, IsCall)

Copies(list, id) == Cardinality({i \in DOMAIN list : list[i] = id})

Ended == unit.task.pc = "done" /\ unit.task.id # 0

\* C12: a dispatch whose download call raises file-reference-expired on
\* attempts 1 and 2 and returns a path on attempt 3 ends with exactly one
\* record of the id in downloaded_ids, none in failed_ids, and exactly two
\* get_messages calls, one after each expired attempt and before the next.
C12_ExpiredTwiceThenSuccess ==
    (/\ Ended
     /\ Len(Calls) = MAX_RETRIES
     /\ \A i \in 1..(MAX_RETRIES - 1) : Calls[i] = "file_reference_expired"
     /\ Calls[MAX_RETRIES] \in {"path", "path_gone"})
    => /\ Copies(state.downloaded_ids, unit.task.id) = 1
       /\ unit.task.id \notin Failed
       /\ unit.log = <<"file_reference_expired", "refetch",
                       "file_reference_expired", "refetch", Calls[MAX_RETRIES]>>

C12_Witness ==
    /\ Ended
    /\ Calls = <<"file_reference_expired", "file_reference_expired", "path">>
    /\ unit.task.end = "success"
    /\ unit.task.id \in Downloaded

\* C13: a dispatch whose MAX_RETRIES (3) download attempts all time out ends
\* with the id in failed_ids and not in downloaded_ids, after one backoff
\* sleep between consecutive attempts and none after the last attempt.
C13_TimeoutExhaustion ==
    (Ended /\ Calls = <<"timeout", "timeout", "timeout">>)
    => /\ unit.task.id \in Failed
       /\ unit.task.id \notin Downloaded
       /\ unit.log = <<"timeout", "sleep", "timeout", "sleep", "timeout">>
       /\ Len(unit.slept) = MAX_RETRIES - 1

C13_Witness ==
    /\ Ended
    /\ Calls = <<"timeout", "timeout", "timeout">>
    /\ unit.task.end = "failed"
    /\ Len(unit.slept) = 2

\* C14: every backoff delay computed is at most MAX_RETRY_DELAY, and the
\* delays slept within one dispatch are non-decreasing in attempt order,
\* whatever jitter values are drawn.
C14_BackoffBoundedMonotone ==
    /\ \A i \in DOMAIN unit.waits : unit.waits[i] <= MAX_RETRY_DELAY * JitterSteps
    /\ \A i, j \in DOMAIN unit.slept : i < j => unit.slept[i] <= unit.slept[j]

\* the greatest jitter on the first sleep and the least on the second
C14_Witness ==
    unit.slept = <<INITIAL_RETRY_DELAY * JitterSteps + JitterSteps - 1,
                   2 * INITIAL_RETRY_DELAY * JitterSteps>>

\* C15: the list get_retry_ids returns holds, as a set, exactly the ids of
\* the previous retry list that are not in downloaded_ids, and the ids of
\* failed_ids.
C15_RetryListLaw ==
    unit.op = "get_retry_ids"
    => Range(unit.out) = (Range(unit.arg) \ Downloaded) \cup Failed

\* previous {1, 2, 3}, downloaded {2}, failed {4} gives {1, 3, 4}
C15_Witness ==
    /\ unit.op = "get_retry_ids"
    /\ unit.arg = <<1, 2, 3>>
    /\ Downloaded = {2}
    /\ Failed = {4}
    /\ Range(unit.out) = {1, 3, 4}

\* C16: a mark_downloaded call for an id that is already in downloaded_ids
\* leaves total_size_bytes as the first call left it and leaves exactly one
\* copy of the id in downloaded_ids.
C16_MarkDownloadedIdempotent ==
    [][(unit'.op = "mark_downloaded" /\ unit'.calls > unit.calls
        /\ unit'.id \in Downloaded)
       => /\ state'.total_size_bytes = state.total_size_bytes
          /\ Copies(state'.downloaded_ids, unit'.id) = 1]_vars

\* the same id marked twice with two sizes
C16_Witness ==
    /\ unit.op = "mark_downloaded"
    /\ unit.calls = 2
    /\ state.downloaded_ids = <<unit.id>>
    /\ state.total_size_bytes # unit.size

\* the message the step pulls from the iterator
PulledNow == hist'.pulled[Len(hist'.pulled)]

Pulling == pc = "scan" /\ Len(hist'.pulled) = Len(hist.pulled) + 1

\* C17: a pulled message dated after end_date is counted in skipped_messages,
\* joins no batch, and the scan goes on; the first pulled message dated
\* before start_date ends the scan and joins no batch; no message pulled by
\* the scan and dated outside [start_date, end_date] is in a dispatched batch.
C17_DateBounds ==
    [][/\ (Pulling /\ end_date # 0 /\ date(PulledNow) > end_date)
            => /\ skipped_messages' = skipped_messages + 1
               /\ messages_list' = messages_list
               /\ hist'.dispatched = hist.dispatched
               /\ pc' = "scan"
       /\ (Pulling /\ ~(end_date # 0 /\ date(PulledNow) > end_date)
                   /\ start_date # 0 /\ date(PulledNow) < start_date)
            => /\ messages_list' = messages_list
               /\ hist'.dispatched = hist.dispatched
               /\ pc' = "drain"
       /\ \A b \in DOMAIN hist'.dispatched :
            \A m \in Range(hist'.dispatched[b]) \cap Range(hist'.pulled) :
               /\ (start_date # 0 => date(m) >= start_date)
               /\ (end_date # 0 => date(m) <= end_date)]_vars

\* a message after end_date was skipped, later in-range messages were
\* batched and dispatched
C17_Witness ==
    /\ pc = "done"
    /\ end_date # 0
    /\ skipped_messages > 0
    /\ \E b \in DOMAIN hist.dispatched :
         Range(hist.dispatched[b]) \cap Range(hist.pulled) # {}

\* C18: the messages of a non-empty persisted ids_to_retry list open the
\* first batch the session dispatches, before any scanned message, whatever
\* the date bounds and the pagination size; a session that ends has
\* dispatched them.
C18_RetrySeedFirst ==
    /\ hist.dispatched # <<>>
         => /\ Len(hist.dispatched[1]) >= Len(hist.seed)
            /\ SubSeq(hist.dispatched[1], 1, Len(hist.seed)) = hist.seed
    /\ (pc = "done" /\ hist.seed # <<>>) => hist.dispatched # <<>>

\* a retry list longer than pagination_limit, out of the date range, was
\* dispatched together with scanned messages
C18_Witness ==
    /\ Len(hist.seed) > pagination_limit
    /\ start_date # 0
    /\ \A i \in DOMAIN hist.seed : date(hist.seed[i]) < start_date
    /\ hist.dispatched # <<>>
    /\ Len(hist.dispatched[1]) > Len(hist.seed)

\* C19: when max_messages is configured and an in-loop batch completes with
\* at least max_messages successes, the scan stops: the session goes to the
\* drain and pulls nothing more from the iterator.
C19_CapStopsScan ==
    [][/\ (/\ pc = "batch_loop" /\ pc' \notin {"batch_loop", "idle", "aborted"}
           /\ max_messages # 0
           /\ Len(state.downloaded_ids) >= max_messages)
          => pc' = "drain"
       /\ (pc \in {"drain", "batch_drain", "finalize", "done"} /\ pc' # "idle")
          => /\ messages_iter' = messages_iter
             /\ pc' \notin {"scan", "batch_loop"}]_vars

\* the cap stopped a scan that had messages left to pull
C19_Witness ==
    /\ pc = "finalize"
    /\ max_messages # 0
    /\ Len(state.downloaded_ids) >= max_messages
    /\ messages_iter # <<>>

C22_RejectedBeforeClient ==
    [][(/\ pc = "idle" /\ pc' # "idle"
        /\ \/ ~validate_api_id(identity.api_id).ok
           \/ ~validate_api_hash(identity.api_hash).ok
           \/ ~validate_chat_id(identity.chat_id).ok)
       => /\ pc' = "aborted"
          /\ hist'.client = "none"
          /\ state' = state
          /\ config' = config
          /\ disk' = disk]_vars

\* a session was refused for its chat_id alone
C22_Witness ==
    /\ pc = "aborted"
    /\ hist.client = "none"
    /\ validate_api_id(identity.api_id).ok
    /\ validate_api_hash(identity.api_hash).ok
    /\ ~validate_chat_id(identity.chat_id).ok

\* C23: _can_download is true for a kind other than audio, document and
\* video; for one of these it is false when the policy does not name the kind
\* or names it with an empty list or a value that is no list, true when the
\* first entry of the list is "all", and otherwise true exactly when the
\* detected format is an entry of the list; a missing format matches no list.
C23_FormatPolicy ==
    unit.op = "_can_download" =>
        unit.out =
            IF unit.type \notin {"audio", "document", "video"} THEN TRUE
            ELSE IF unit.type \notin DOMAIN unit.file_formats THEN FALSE
            ELSE IF ~unit.file_formats[unit.type].list THEN FALSE
            ELSE IF Len(unit.file_formats[unit.type].items) = 0 THEN FALSE
            ELSE IF Head(unit.file_formats[unit.type].items) = "all" THEN TRUE
            ELSE /\ unit.file_format # "None"
                 /\ \E i \in DOMAIN unit.file_formats[unit.type].items :
                       unit.file_formats[unit.type].items[i] = unit.file_format

\* "all" after an explicit format does not admit another format
C23_Witness ==
    /\ unit.op = "_can_download"
    /\ unit.type = "audio"
    /\ unit.file_formats = [k \in {"audio"} |->
                               [list |-> TRUE, items |-> <<"mp3", "all">>]]
    /\ unit.file_format = "wav"
    /\ ~unit.out

FirstFlagged(attrs) ==
    {i \in DOMAIN attrs :
        /\ IsBool(attrs[i].voice) \/ IsBool(attrs[i].round_message)
        /\ \A j \in 1..(i - 1) :
              ~IsBool(attrs[j].voice) /\ ~IsBool(attrs[j].round_message)}

\* C24: get_media_type returns for every message: no kind when there is no
\* media, photo for a photo payload, and for a document payload the kind of
\* the first attribute with a boolean voice flag (voice, audio) or a boolean
\* round flag (video_note, video), document when no attribute has one.
C24_ClassifierTotal ==
    unit.op = "get_media_type" =>
        /\ unit.out.ok
        /\ unit.message.media = "none" => unit.out.kind = "None"
        /\ unit.message.media = "photo" => unit.out.kind = "photo"
        /\ unit.message.media = "document" =>
              LET attrs == unit.message.attributes IN
              /\ FirstFlagged(attrs) = {} => unit.out.kind = "document"
              /\ \A i \in FirstFlagged(attrs) :
                    unit.out.kind =
                        IF IsBool(attrs[i].voice)
                        THEN (IF attrs[i].voice = "True" THEN "voice" ELSE "audio")
                        ELSE (IF attrs[i].round_message = "True"
                              THEN "video_note" ELSE "video")

\* the files other than file_path with its base stem and its content
IdenticalSiblings ==
    {n \in DOMAIN unit.before \ {unit.file_path} :
        /\ file_base_name(n) = file_base_name(unit.file_path)
        /\ unit.before[n] = unit.before[unit.file_path]}

\* C25: when every file can be read and removed, manage_duplicate_file(path)
\* with a same-stem sibling of identical content leaves exactly one of the two
\* and returns it; with no such sibling it returns path and deletes nothing.
C25_Reconcile ==
    (unit.op = "manage_duplicate_file" /\ unit.unreadable = {} /\ ~unit.remove_fails) =>
        /\ IdenticalSiblings # {} =>
              \E n \in IdenticalSiblings :
                  /\ Cardinality({n, unit.file_path} \cap DOMAIN unit.fs) = 1
                  /\ unit.out \in {n, unit.file_path} \cap DOMAIN unit.fs
        /\ IdenticalSiblings = {} =>
              /\ unit.out = unit.file_path
              /\ unit.fs = unit.before

\* C26: every call of handle_error adds one to exactly one counter and leaves
\* the other alone: to error_count when critical is set or the classified
\* record has severity ERROR, as UNKNOWN_ERROR, the record of every unmapped
\* exception kind, has; to warnings_count otherwise.
C26_OneCounter ==
    unit.op = "handle_error" =>
        /\ unit.exception \notin DOMAIN mapping =>
              /\ from_exception(unit.exception) = "UNKNOWN_ERROR"
              /\ get_severity(from_exception(unit.exception)) = "ERROR"
        /\ IF unit.critical \/ get_severity(from_exception(unit.exception)) = "ERROR"
           THEN /\ unit.self.error_count = unit.before.error_count + 1
                /\ unit.self.warnings_count = unit.before.warnings_count
           ELSE /\ unit.self.warnings_count = unit.before.warnings_count + 1
                /\ unit.self.error_count = unit.before.error_count

\* C27: after any sequence of append-mode saves of any lists, the exported
\* array holds at most one record for each message id.
C27_ExportUnique ==
    unit.op = "save_messages_to_json" =>
        \A i, j \in DOMAIN unit.file.records :
            unit.file.records[i].message_id = unit.file.records[j].message_id => i = j

\* C28: an append-mode save leaves the records already in the file as they
\* are and where they are, and adds the records of the new ids after them in
\* the order given.
C28_AppendPreserves ==
    unit.op = "save_messages_to_json" =>
        LET old == unit.before.records
            new == unit.file.records
            added == SelectSeq(unit.messages,
                               LAMBDA m : \A i \in DOMAIN old : old[i].message_id # m.id)
        IN /\ Len(new) = Len(old) + Len(added)
           /\ \A i \in DOMAIN old : new[i] = old[i]
           /\ \A i \in DOMAIN added :
                 /\ new[Len(old) + i].message_id = added[i].id
                 /\ new[Len(old) + i].text = added[i].text

\* the file holds message 1 as first written; the list brings it edited,
\* behind the new message 2
C28_Witness ==
    /\ unit.op = "save_messages_to_json"
    /\ unit.before.records = <<[message_id |-> 1, text |-> "first"]>>
    /\ unit.messages = <<[id |-> 2, text |-> "first"], [id |-> 1, text |-> "edited"]>>
    /\ unit.file.records = <<[message_id |-> 1, text |-> "first"],
                             [message_id |-> 2, text |-> "first"]>>

\* C29: an update_config(config, updates) that saves changes exactly the
\* keys of updates: they have the values of updates and every other key of
\* the document has the value it had, in the returned document and in the
\* saved file, after any sequence of updates.
C29_UpdatePreservesKeys ==
    (unit.op = "update_config" /\ unit.raised = "no") =>
        /\ DOMAIN unit.config = DOMAIN unit.before \cup DOMAIN unit.updates
        /\ \A k \in DOMAIN unit.updates : unit.config[k] = unit.updates[k]
        /\ \A k \in DOMAIN unit.before \ DOMAIN unit.updates :
              unit.config[k] = unit.before[k]
        /\ Load(unit.store.file) = unit.config

\* a later update of the retry list alone, on a document with other keys
C29_Witness ==
    /\ unit.op = "update_config"
    /\ unit.raised = "no"
    /\ unit.calls > 1
    /\ DOMAIN unit.updates = {"ids_to_retry"}
    /\ DOMAIN unit.before = Range(ConfigKeys)
    /\ unit.before["ids_to_retry"] # unit.updates["ids_to_retry"]
    /\ Load(unit.store.file)["api_id"] = unit.before["api_id"]
    /\ Load(unit.store.file)["ids_to_retry"] = unit.updates["ids_to_retry"]

IsRefetch(e) == e \in {"refetch", "refetch_raised"}

IsSleep(e) == e = "sleep"

\* C30: within one dispatch, whatever mix of file-reference-expired and
\* timeout failures, the download call is made at most MAX_RETRIES (3) times
\* and get_messages at most MAX_RETRIES - 1 (2) times; refetches and backoff
\* sleeps draw on the same attempts, so together they are at most
\* MAX_RETRIES - 1 and each is followed by at most one more download call.
C30_AttemptBound ==
    /\ Len(Calls) <= MAX_RETRIES
    /\ Len(SelectSeq(unit.log, IsRefetch)) <= MAX_RETRIES - 1
    /\ Len(SelectSeq(unit.log, IsRefetch)) + Len(SelectSeq(unit.log, IsSleep))
          <= MAX_RETRIES - 1
    /\ Len(Calls) <= 1 + Len(SelectSeq(unit.log, IsRefetch))
                       + Len(SelectSeq(unit.log, IsSleep))

\* one expiry, then two timeouts: the third attempt is the last
C30_Witness ==
    /\ Ended
    /\ unit.log = <<"file_reference_expired", "refetch", "timeout", "sleep", "timeout">>
    /\ unit.task.end = "failed"
    /\ unit.task.id \in Failed

IsTerminal(e) == e \in {"bad_request", "other_exception", "refetch_raised"}

\* C31: a bad request, a refetch that raises, or any exception other than
\* file-reference-expired and timeout, on whatever attempt, puts the id into
\* failed_ids and ends the dispatch: no download call, refetch or backoff
\* sleep follows it.
C31_TerminalFailures ==
    \A i \in DOMAIN unit.log :
        IsTerminal(unit.log[i]) =>
            /\ i = Len(unit.log)
            /\ unit.task.pc = "done"
            /\ unit.task.ret = unit.task.id
            /\ unit.task.id \in Failed

\* the refetch after the second expired attempt raises
C31_Witness ==
    /\ Ended
    /\ unit.log = <<"timeout", "sleep", "file_reference_expired", "refetch_raised">>
    /\ unit.task.id \in Failed
    /\ unit.task.id \notin Downloaded

\* C32: every batch the scan loop dispatches holds at most pagination_limit
\* messages, whatever the limit, the seeded retry list and the stream.
C32_BatchSizeBound ==
    [][(pc = "scan" /\ pc' = "batch_loop") => Len(tasks') <= pagination_limit]_vars

\* C33: an id is added to downloaded_ids only when the path reconciliation
\* returned exists at that moment (and then with the size of that file): a
\* dispatch that recorded its id as downloaded ended on a download call
\* whose path exists.
C33_SuccessOnlyOnDisk ==
    (Ended /\ unit.task.id \in Downloaded) =>
        /\ Calls # <<>>
        /\ Calls[Len(Calls)] = "path"

\* the kind the classifier contract gives a message: none without media,
\* photo for a photo payload, for a document payload the kind its attributes
\* decide
KindOf(msg) ==
    IF msg.media = "photo" THEN "photo"
    ELSE IF msg.media = "document" THEN KindFromAttributes(msg.attributes, 1)
    ELSE "None"

\* C34: dispatching a message whose kind is absent or not among the accepted
\* kinds, or whose format the policy rejects, leaves downloaded_ids,
\* failed_ids, total_size_bytes and the error handler's counters as they
\* were and makes no download or refetch call.
C34_FilteredNoEffect ==
    (/\ unit.op = "_download_media_internal"
     /\ \/ KindOf(unit.message) = "None"
        \/ KindOf(unit.message) \notin unit.media_types
        \/ ~can_download(KindOf(unit.message), unit.file_formats,
                         file_format_of(KindOf(unit.message), unit.mime_subtype)))
    => /\ state = EmptyState
       /\ unit.handler = NewErrorHandler
       /\ unit.calls = 0

RECURSIVE SumSizes(_)
SumSizes(ids) ==
    IF ids = <<>> THEN 0 ELSE FileSize(Head(ids)) + SumSizes(Tail(ids))

NoRepeat(list) == \A i, j \in DOMAIN list : list[i] = list[j] => i = j

\* C35: in whatever order the download tasks of a batch run and complete,
\* total_size_bytes is the sum, over the ids of downloaded_ids, of the size
\* the first mark_downloaded call for the id passed, and neither
\* downloaded_ids nor failed_ids holds an id twice.
C35_NoLostUpdate ==
    /\ state.total_size_bytes = SumSizes(state.downloaded_ids)
    /\ NoRepeat(state.downloaded_ids)
    /\ NoRepeat(state.failed_ids)

\* a batch has completed whose tasks finished out of list order, one of
\* them after a failure
C35_Witness ==
    /\ pc \in {"batch_loop", "batch_drain"}
    /\ GatherResolved(tasks)
    /\ Len(tasks) > 2
    /\ \E i, j \in DOMAIN state.downloaded_ids :
          i < j /\ state.downloaded_ids[i] > state.downloaded_ids[j]
    /\ \E t \in DOMAIN tasks : tasks[t].id \in Failed

\* C36: within one session every message, pulled by the scan or seeded from
\* the retry list, is in at most one dispatched batch, once; the drain
\* dispatches no batch a second time, however the scan loop stopped.
C36_DispatchedOnce ==
    \A i, j \in DOMAIN hist.dispatched :
        \A a \in DOMAIN hist.dispatched[i], b \in DOMAIN hist.dispatched[j] :
            hist.dispatched[i][a] = hist.dispatched[j][b] => (i = j /\ a = b)

\* C37: no two download tasks of a batch that are in flight at the same time
\* write to the same destination path, under every interleaving of the
\* existence checks and the downloads.
C37_DistinctPaths ==
    unit.op = "batch" =>
        \A t, u \in PathTasks :
            (t # u /\ InFlightPath(unit.tasks[t]) /\ InFlightPath(unit.tasks[u]))
                => unit.tasks[t].path # unit.tasks[u].path

\* C38: in a session without a message cap, when it has ended every
\* available message with an id above the cursor the session started from and
\* a date within [start_date, end_date] has been dispatched in some batch,
\* also when messages dated before start_date come earlier in the stream.
C38_InRangeComplete ==
    (pc = "done" /\ max_messages = 0)
        => \A m \in avail :
             (/\ m > hist.startCursor
              /\ (start_date # 0 => date(m) >= start_date)
              /\ (end_date # 0 => date(m) <= end_date))
                => \E b \in DOMAIN hist.dispatched : m \in Range(hist.dispatched[b])

\* C39: the ids_to_retry list in the config file never holds an id twice,
\* however many times the session has persisted and whether or not an id
\* seeded from the retry list failed again.
C39_PersistedRetryNoRepeat == NoRepeat(disk.ids_to_retry)

\* C40: in a session that is not killed and whose client calls and sleeps
\* all end, every coroutine of a batch that waits for a permit gets past the
\* semaphore, every coroutine of a batch returns, every dispatched batch
\* completes, and the session reaches the end of Finalize; so also when the
\* batch is wider than the pool of permits and holders of a permit sleep.
C40_Termination ==
    /\ \A t \in 1..GateWidth :
         (t \in DOMAIN tasks /\ tasks[t].pc = "wait")
             ~> (t \in DOMAIN tasks /\ tasks[t].pc # "wait")
    /\ \A t \in 1..GateWidth :
         (t \in DOMAIN tasks) ~> (t \in DOMAIN tasks /\ tasks[t].pc = "done")
    /\ InFlight ~> (InFlight /\ GatherResolved(tasks))
    /\ InFlight ~> ~InFlight
    /\ (pc = "scan") ~> (pc = "done")

\* the last coroutine of a batch wider than the pool holds a permit while an
\* earlier one sleeps with its own
C40_Witness ==
    /\ InFlight
    /\ Len(tasks) > MAX_CONCURRENT_DOWNLOADS
    /\ Holding(tasks[Len(tasks)])
    /\ \E t \in DOMAIN tasks : tasks[t].pc = "sleep"

\* C20: whenever an in-loop batch completes, the loop goes on, and at least
\* PERSIST_EVERY (50) successes were recorded since the previous persist, the
\* config is persisted in that step, before the next batch is dispatched.
C20_PersistEvery50 ==
    [][(/\ pc = "batch_loop" /\ pc' = "scan"
        /\ Len(state.downloaded_ids) - hist.persistedSuccesses >= PERSIST_EVERY)
       => Persisting]_vars

====
